---- MODULE Spec2Model ----
(***************************************************************************)
(* Pairing-session lifecycle of src/server.js: the in-memory registry      *)
(* pairingMap, the per-code session directories under SESSIONS_DIR, the    *)
(* asynchronous pairing attempt started by GET /pair                       *)
(* (startPairingForCode and the handlers it registers) and the periodic    *)
(* cleanup task.  Every action is one turn of the Node.js event loop: the  *)
(* code between two suspension points (await) runs without interleaving.   *)
(***************************************************************************)
EXTENDS Integers, Sequences, FiniteSets, TLC

\* ------------------------------------------------------------------ bounds
NumCodes == 2        \* size of the slice of the 6-digit code space explored
MaxAttempts == 2     \* GET /pair requests served
MaxEvents == 2       \* protocol events delivered, all sockets together
MaxTicks == 2        \* clock advances

\* ------------------------------------------------------- program constants
SESSION_TTL == 300 * 1000
FirstCode == 100000
ClockStep == SESSION_TTL

Codes == FirstCode .. (FirstCode + NumCodes - 1)
AttemptIds == 1 .. MaxAttempts

VARIABLES
    pairingMap,   \* code -> session record, NoRecord when the key is absent
    disk,         \* code -> the directory SESSIONS_DIR/<code>
    now,          \* Date.now()
    att,          \* attempt -> position of its startPairingForCode call
    handlers,     \* attempt -> suspended connection.update handlers
    nextAttempt,  \* number of GET /pair requests served so far, plus one
    events,       \* number of protocol events delivered so far
    crashed,      \* the process died of an uncaught exception / rejection
    lastOp,       \* history: the turn that produced this state
    everOpen,     \* history: records (by creating attempt) that were 'open'
    persisted,    \* history: records whose open handler wrote the artifact
    writes        \* history: attempt -> writes of session_id.json it made

vars == <<pairingMap, disk, now, att, handlers, nextAttempt, events, crashed,
          lastOp, everOpen, persisted, writes>>

\* --------------------------------------------------------------- the store
NoRecord == [owner |-> 0]
Null == <<>>

\* The object literal of GET /pair.  owner is the identity of the object
\* (the attempt whose request created it); sock and error start undefined.
NewRecord(a, code, t) ==
    [owner |-> a, code |-> code, status |-> "created", qr |-> Null,
     pairingCode |-> Null, sessionPath |-> code, createdAt |-> t,
     sock |-> 0, error |-> Null]

Has(c) == pairingMap[c] # NoRecord

\* ---------------------------------------------------------------- the disk
CREDS == "creds.json"
ARTIFACT == "session_id.json"
APPSTATE == "app-state.json"
NoFiles == [n \in {} |-> Null]
NoDir == [exists |-> FALSE, files |-> NoFiles]
EmptyDir == [exists |-> TRUE, files |-> NoFiles]

Raw(v) == <<"raw", v>>
Doc(files) == <<"json", files>>

WriteFile(dir, name, content) ==
    [dir EXCEPT !.files =
        [n \in (DOMAIN dir.files) \cup {name} |->
            IF n = name THEN content ELSE dir.files[n]]]

HasFile(dir, name) == dir.exists /\ name \in DOMAIN dir.files

\* the loop over filesOnDisk stopping after creds.json
MaterializeCredsOnly(dir) ==
    WriteFile(dir, ARTIFACT,
              Doc([n \in (DOMAIN dir.files) \cap {CREDS} |-> dir.files[n]]))

\* JSON.stringify(files) of the object the open branch fills from readdirSync
Materialize(dir) == WriteFile(dir, ARTIFACT, Doc(dir.files))

\* ------------------------------------------------------------ the attempts
\* code: the argument of startPairingForCode; pc: where the call stands;
\* ended: sock.end() was called; pcb: the pairingCode callback has run.
Unused == [code |-> 0, pc |-> "unused", ended |-> FALSE, pcb |-> FALSE]

Remove(seq, i) == SubSeq(seq, 1, i - 1) \o SubSeq(seq, i + 1, Len(seq))

DataURL(q) == <<"data:image/png", q>>

Init ==
    /\ pairingMap = [c \in Codes |-> NoRecord]
    /\ disk = [c \in Codes |-> NoDir]
    /\ now = 0
    /\ att = [a \in AttemptIds |-> Unused]
    /\ handlers = [a \in AttemptIds |-> <<>>]
    /\ nextAttempt = 1
    /\ events = 0
    /\ crashed = FALSE
    /\ lastOp = "init"
    /\ everOpen = {}
    /\ persisted = {}
    /\ writes = [a \in AttemptIds |-> 0]

\* An uncaught exception or an unhandled promise rejection ends the
\* process: no suspended call resumes and no socket delivers any more.
\* The store and the disk are left as they were when it died.
Die ==
    /\ crashed' = TRUE
    /\ handlers' = [a \in AttemptIds |-> <<>>]
    /\ att' = [a \in AttemptIds |->
                  [Unused EXCEPT !.code = att[a].code,
                                 !.pc = IF att[a].pc = "unused" THEN "unused"
                                        ELSE "dead"]]

\* ------------------------------------------------------------- GET /pair
\* the loop left out: the first candidate is used as it comes
TakenUnchecked(code) == FALSE

\* while (pairingMap[code]) code = genCode();
Taken(code) == Has(code)

\* One request: the allocation loop ends on a code that is not Taken, the
\* directory is made when missing, the record is stored and
\* startPairingForCode runs synchronously up to its first await.
Pair(code) ==
    /\ ~crashed
    /\ nextAttempt <= MaxAttempts
    /\ ~Taken(code)
    /\ disk' = [disk EXCEPT ![code] =
                   IF disk[code].exists THEN disk[code] ELSE EmptyDir]
    /\ pairingMap' = [pairingMap EXCEPT
                         ![code] = NewRecord(nextAttempt, code, now)]
    /\ att' = [att EXCEPT ![nextAttempt] =
                  [Unused EXCEPT !.code = code, !.pc = "startup"]]
    /\ nextAttempt' = nextAttempt + 1
    /\ lastOp' = "pair"
    /\ UNCHANGED <<now, handlers, events, crashed, everOpen, persisted,
                   writes>>

\* ------------------------------------------------------ the cleanup task
\* the comparison with >= in place of >
ExpiredAtTTL(info, t) ==
    info.status # "open" /\ (t - info.createdAt) >= SESSION_TTL

\* the status guard left out
ExpiredAnyStatus(info, t) == (t - info.createdAt) > SESSION_TTL

Expired(info, t) ==
    info.status # "open" /\ (t - info.createdAt) > SESSION_TTL

Stale == {c \in Codes : Has(c) /\ Expired(pairingMap[c], now)}

\* sockets whose end() the cleanup of the codes in S calls
EndedBy(S) == {pairingMap[c].sock : c \in S} \ {0}

\* the fs.rmSync call left out
CleanupKeepsDir(S) ==
    /\ disk' = disk
    /\ pairingMap' = [c \in Codes |->
                         IF c \in S THEN NoRecord ELSE pairingMap[c]]

\* cleanupSession for every code of S: the store and the disk afterwards
cleanupSession(S) ==
    /\ disk' = [c \in Codes |-> IF c \in S THEN NoDir ELSE disk[c]]
    /\ pairingMap' = [c \in Codes |->
                         IF c \in S THEN NoRecord ELSE pairingMap[c]]

\* One tick of the setInterval callback that runs to its end.
SweepTick ==
    /\ ~crashed
    /\ cleanupSession(Stale)
    /\ att' = [a \in AttemptIds |->
                  IF a \in EndedBy(Stale) THEN [att[a] EXCEPT !.ended = TRUE]
                  ELSE att[a]]
    /\ lastOp' = "sweep"
    /\ UNCHANGED <<now, handlers, nextAttempt, events, crashed, everOpen,
                   persisted, writes>>

\* A tick in which sock.end() or fs.rmSync throws for code c: the codes
\* visited before c (for-in visits integer keys in ascending order) are
\* cleaned up, c keeps its record, the exception leaves the callback and
\* the process dies.
SweepThrow(c) ==
    /\ ~crashed
    /\ c \in Stale
    /\ cleanupSession({d \in Stale : d < c})
    /\ Die
    /\ lastOp' = "sweepThrow"
    /\ UNCHANGED <<now, nextAttempt, events, everOpen, persisted, writes>>

\* Date.now() moves on.
Tick ==
    /\ ~crashed
    /\ now < MaxTicks * ClockStep
    /\ now' = now + ClockStep
    /\ lastOp' = "tick"
    /\ UNCHANGED <<pairingMap, disk, att, handlers, nextAttempt, events,
                   crashed, everOpen, persisted, writes>>

\* ------------------------------------------------- startPairingForCode
\* The .catch handler GET /pair hangs on startPairingForCode(code), run on
\* the store pm: it writes through pairingMap[code], whatever is there now.
CatchHandler(pm, code) ==
    [pm EXCEPT ![code].status = "error", ![code].error = <<"Error">>]

\* startPairingForCode rejects at one of its two awaits (before the auth
\* folder is set up) and the catch handler runs in the same turn; the
\* handler throws itself when the key is gone.
StartupReject(a) ==
    /\ ~crashed
    /\ att[a].pc = "startup"
    /\ lastOp' = "startupReject"
    /\ UNCHANGED <<disk, now, nextAttempt, events, everOpen, persisted,
                   writes>>
    /\ IF Has(att[a].code)
       THEN /\ pairingMap' = CatchHandler(pairingMap, att[a].code)
            /\ att' = [att EXCEPT ![a].pc = "failed"]
            /\ UNCHANGED <<handlers, crashed>>
       ELSE /\ Die
            /\ UNCHANGED pairingMap

\* await fetchLatestBaileysVersion() has resolved and
\* useMultiFileAuthState(info.sessionPath) sets the folder up before its
\* promise resolves: the helper of @whiskeysockets/baileys stats the folder
\* and makes it (mkdir, recursive) when it is missing.
AuthStateReady(a) ==
    /\ ~crashed
    /\ att[a].pc = "startup"
    /\ att' = [att EXCEPT ![a].pc = "authReady"]
    /\ disk' = [disk EXCEPT ![att[a].code] =
                   IF disk[att[a].code].exists THEN disk[att[a].code]
                   ELSE EmptyDir]
    /\ lastOp' = "authState"
    /\ UNCHANGED <<pairingMap, now, handlers, nextAttempt, events, crashed,
                   everOpen, persisted, writes>>

\* The continuation after the two awaits: status 'connecting', the socket
\* is made (sockOk = FALSE: makeWASocket throws), stored in the record and
\* the two subscriptions are registered.
StartupResume(a, sockOk) ==
    /\ ~crashed
    /\ att[a].pc = "authReady"
    /\ lastOp' = "startupResume"
    /\ UNCHANGED <<disk, now, nextAttempt, events, everOpen, persisted,
                   writes>>
    /\ LET code == att[a].code
           pm1 == [pairingMap EXCEPT ![code].status = "connecting"]
       IN  IF ~Has(code)
           THEN /\ Die
                /\ UNCHANGED pairingMap
           ELSE /\ att' = [att EXCEPT
                              ![a].pc = IF sockOk THEN "listening" ELSE "failed"]
                /\ pairingMap' = IF sockOk
                                 THEN [pm1 EXCEPT ![code].sock = a]
                                 ELSE CatchHandler(pm1, code)
                /\ UNCHANGED <<handlers, crashed>>

\* ------------------------------------------------------ protocol events
\* The socket of attempt a delivers events: it exists and was not ended.
Live(a) ==
    /\ ~crashed
    /\ att[a].pc = "listening"
    /\ ~att[a].ended

\* pairingCode: (pCode) => { ... }, called at most once per socket; pCode
\* is written <<a>>, the code the socket of attempt a was given.  With
\* the key gone the assignment throws into the protocol client, which may
\* or may not let the exception end the process.
PairingCodeCallback(a, fatal) ==
    /\ Live(a)
    /\ ~att[a].pcb
    /\ lastOp' = "pairingCode"
    /\ UNCHANGED <<disk, now, nextAttempt, events, everOpen, persisted,
                   writes>>
    /\ IF Has(att[a].code)
       THEN /\ ~fatal
            /\ pairingMap' = [pairingMap EXCEPT
                                 ![att[a].code].pairingCode = <<a>>,
                                 ![att[a].code].status = "code"]
            /\ att' = [att EXCEPT ![a].pcb = TRUE]
            /\ UNCHANGED <<handlers, crashed>>
       ELSE /\ IF fatal THEN Die
               ELSE /\ att' = [att EXCEPT ![a].pcb = TRUE]
                    /\ UNCHANGED <<handlers, crashed>>
            /\ UNCHANGED pairingMap

\* the status guard left out
QrStatusAlways(status) == "qr"

\* the guard written against the paired state instead of the numeric code
QrStatusOpenOnly(status) == IF status # "open" THEN "qr" ELSE status

\* We set status to 'qr' only if we haven't received the pairing code yet
QrStatus(status) == IF status # "code" THEN "qr" ELSE status

\* The part of the connection.update handler from `if (connection ===
\* 'open')` on, run on the store pm with hs the other suspended handlers of
\* the attempt: 'open' sets the status and suspends on saveCreds(), 'close'
\* sets the status.  It leaves the disk alone.
ConnectionPart(a, pm, hs, conn) ==
    LET code == att[a].code IN
    /\ UNCHANGED <<disk, now, nextAttempt, persisted, writes>>
    /\ IF conn = "none"
       THEN /\ pairingMap' = pm
            /\ handlers' = [handlers EXCEPT ![a] = hs]
            /\ UNCHANGED <<att, crashed, everOpen>>
       ELSE IF pm[code] = NoRecord
       THEN /\ Die
            /\ UNCHANGED <<pairingMap, everOpen>>
       ELSE IF conn = "open"
       THEN /\ pairingMap' = [pm EXCEPT ![code].status = "open"]
            /\ handlers' = [handlers EXCEPT ![a] =
                   Append(hs, [at |-> "saveCreds", qr |-> 0,
                               connection |-> conn, rec |-> pm[code].owner])]
            /\ everOpen' = everOpen \cup {pm[code].owner}
            /\ UNCHANGED <<att, crashed>>
       ELSE /\ pairingMap' = [pm EXCEPT ![code].status = "closed"]
            /\ handlers' = [handlers EXCEPT ![a] = hs]
            /\ UNCHANGED <<att, crashed, everOpen>>

\* The socket emits connection.update {qr, connection: conn}; every QR
\* string is fresh and is written as the ordinal of the event that carries
\* it (0: the update has no qr).  With a qr the handler suspends on
\* qrcode.toDataURL at once; without one it runs the connection part in
\* the emitting turn.
ConnectionUpdate(a, hasQr, conn) ==
    /\ Live(a)
    /\ events < MaxEvents
    /\ hasQr \/ conn # "none"
    /\ events' = events + 1
    /\ lastOp' = "update"
    /\ IF hasQr
       THEN /\ handlers' = [handlers EXCEPT ![a] =
                   Append(@, [at |-> "toDataURL", qr |-> events + 1,
                              connection |-> conn, rec |-> 0])]
            /\ UNCHANGED <<pairingMap, disk, now, att, nextAttempt, crashed,
                           everOpen, persisted, writes>>
       ELSE ConnectionPart(a, pairingMap, handlers[a], conn)

\* A handler suspended on qrcode.toDataURL resumes: it stores the image,
\* sets the status from the status it reads now, then runs the connection
\* part of the same update.
QrResume(a, i) ==
    /\ ~crashed
    /\ i \in DOMAIN handlers[a]
    /\ handlers[a][i].at = "toDataURL"
    /\ lastOp' = "qrResume"
    /\ UNCHANGED events
    /\ LET h == handlers[a][i]
           code == att[a].code
       IN  IF ~Has(code)
           THEN /\ Die
                /\ UNCHANGED <<pairingMap, disk, now, nextAttempt, everOpen,
                               persisted, writes>>
           ELSE ConnectionPart(a,
                    [pairingMap EXCEPT
                        ![code].qr = DataURL(h.qr),
                        ![code].status = QrStatus(pairingMap[code].status)],
                    Remove(handlers[a], i), h.connection)

\* saveCreds() of attempt a: its credentials (written Raw(a)) go to
\* creds.json of the folder given to useMultiFileAuthState; it fails when
\* the folder is gone.
saveCreds(dir, a) ==
    IF dir.exists THEN WriteFile(dir, CREDS, Raw(a)) ELSE dir

\* A handler suspended on `await saveCreds()` resumes (saved = FALSE: the
\* flush failed, which the try/catch swallows): it reads every file of
\* info.sessionPath and writes session_id.json.  readdirSync throws when
\* the directory is gone and any read or the write may fail (ioOk =
\* FALSE); nothing catches that.
OpenResume(a, i, saved, ioOk) ==
    /\ ~crashed
    /\ i \in DOMAIN handlers[a]
    /\ handlers[a][i].at = "saveCreds"
    /\ lastOp' = "openResume"
    /\ UNCHANGED <<pairingMap, now, nextAttempt, events, everOpen>>
    /\ LET path == att[a].code
           dir == IF saved THEN saveCreds(disk[path], a) ELSE disk[path]
       IN  IF dir.exists /\ ioOk
           THEN /\ disk' = [disk EXCEPT ![path] = Materialize(dir)]
                /\ writes' = [writes EXCEPT ![a] = @ + 1]
                /\ persisted' = persisted \cup {handlers[a][i].rec}
                /\ handlers' = [handlers EXCEPT ![a] = Remove(@, i)]
                /\ UNCHANGED <<att, crashed>>
           ELSE /\ disk' = [disk EXCEPT ![path] = dir]
                /\ Die
                /\ UNCHANGED <<writes, persisted>>

\* sock.ev.on('creds.update', saveCreds): the returned promise is dropped,
\* so a failed flush is an unhandled rejection.
CredsUpdate(a) ==
    /\ Live(a)
    /\ events < MaxEvents
    /\ events' = events + 1
    /\ lastOp' = "credsUpdate"
    /\ UNCHANGED <<pairingMap, now, nextAttempt, everOpen, persisted, writes>>
    /\ IF disk[att[a].code].exists
       THEN /\ disk' = [disk EXCEPT ![att[a].code] = saveCreds(@, a)]
            /\ UNCHANGED <<att, handlers, crashed>>
       ELSE /\ Die
            /\ UNCHANGED disk

\* The socket persists key material through the auth state it was given
\* (auth: state): a raw file of attempt a appears in the folder beside
\* creds.json.
KeysWrite(a) ==
    /\ Live(a)
    /\ events < MaxEvents
    /\ disk[att[a].code].exists
    /\ events' = events + 1
    /\ disk' = [disk EXCEPT ![att[a].code] = WriteFile(@, APPSTATE, Raw(a))]
    /\ lastOp' = "keysWrite"
    /\ UNCHANGED <<pairingMap, now, att, handlers, nextAttempt, crashed,
                   everOpen, persisted, writes>>

Next ==
    \/ \E code \in Codes : Pair(code)
    \/ SweepTick
    \/ \E c \in Codes : SweepThrow(c)
    \/ Tick
    \/ \E a \in AttemptIds : StartupReject(a)
    \/ \E a \in AttemptIds : AuthStateReady(a)
    \/ \E a \in AttemptIds, sockOk \in BOOLEAN : StartupResume(a, sockOk)
    \/ \E a \in AttemptIds, hasQr \in BOOLEAN,
          conn \in {"none", "open", "close"} : ConnectionUpdate(a, hasQr, conn)
    \/ \E a \in AttemptIds, fatal \in BOOLEAN : PairingCodeCallback(a, fatal)
    \/ \E a \in AttemptIds, i \in 1 .. MaxEvents : QrResume(a, i)
    \/ \E a \in AttemptIds, i \in 1 .. MaxEvents, saved \in BOOLEAN,
          ioOk \in BOOLEAN : OpenResume(a, i, saved, ioOk)
    \/ \E a \in AttemptIds : CredsUpdate(a)
    \/ \E a \in AttemptIds : KeysWrite(a)

Spec == Init /\ [][Next]_vars

\* The same program with what its scheduling guarantees while the process
\* lives: the setInterval callback keeps running and Date.now() moves on.
FairSpec == Spec /\ WF_vars(SweepTick) /\ WF_vars(Tick)

\* ------------------------------------------------------------ the facade
\* GET /status/:code
StatusQuery(c) ==
    IF ~Has(c) THEN [ok |-> FALSE, status |-> "expired"]
    ELSE [ok |-> TRUE,
          code |-> pairingMap[c].code,
          status |-> pairingMap[c].status,
          qrAvailable |-> pairingMap[c].qr # Null,
          pairingCode |-> pairingMap[c].pairingCode,
          sessionReady |-> HasFile(disk[pairingMap[c].sessionPath], ARTIFACT),
          expiresIn |-> IF SESSION_TTL - (now - pairingMap[c].createdAt) > 0
                        THEN SESSION_TTL - (now - pairingMap[c].createdAt)
                        ELSE 0,
          error |-> pairingMap[c].error]

\* GET /download-session/:code
DownloadQuery(c) ==
    IF ~Has(c) THEN "invalid code or session expired"
    ELSE IF ~HasFile(disk[pairingMap[c].sessionPath], ARTIFACT)
    THEN "session not ready"
    ELSE "download"

\* =================================================================== claims
Age(c) == now - pairingMap[c].createdAt
Artifact(c) == HasFile(disk[c], ARTIFACT)
RawFiles(dir) == [n \in (DOMAIN dir.files) \ {ARTIFACT} |-> dir.files[n]]
Used(a) == att[a].pc # "unused"

\* C1: GET /pair stores the new record under a code that is not a key of the
\* store: no step replaces a live record by another one, every record sits
\* under its own code and no two keys hold the same record.
C1_FreshCode ==
    /\ [][\A c \in Codes :
            (pairingMap[c] # NoRecord /\ pairingMap'[c] # NoRecord)
                => pairingMap'[c].owner = pairingMap[c].owner]_vars
    /\ [](\A c, d \in Codes :
            pairingMap[c] # NoRecord =>
                /\ pairingMap[c].code = c
                /\ (d # c /\ pairingMap[d] # NoRecord)
                       => pairingMap[d].owner # pairingMap[c].owner)

\* a request has just been served while another code was live
C1_Witness ==
    /\ lastOp = "pair"
    /\ \A c \in Codes : pairingMap[c] # NoRecord

\* C2: a record (and its directory) is removed only if its status is not
\* 'open' and now - createdAt is strictly greater than SESSION_TTL.
C2_EvictOnlyExpired ==
    [][\A c \in Codes :
          (pairingMap[c] # NoRecord /\ pairingMap'[c] = NoRecord)
              => /\ pairingMap[c].status # "open"
                 /\ now - pairingMap[c].createdAt > SESSION_TTL]_vars

\* a tick has removed one record and kept one that is as old but open, or
\* one that is exactly SESSION_TTL old
C2_Witness ==
    /\ lastOp = "sweep"
    /\ \E a \in AttemptIds : Used(a) /\ pairingMap[att[a].code] = NoRecord
    /\ \E c \in Codes :
          /\ pairingMap[c] # NoRecord
          /\ \/ pairingMap[c].status = "open" /\ Age(c) > SESSION_TTL
             \/ pairingMap[c].status # "open" /\ Age(c) = SESSION_TTL

\* C3 as claimed: once the open handler of a record has written the
\* artifact, the record stays in the store and the artifact on disk.
C3_PairedKeptForever ==
    \A o \in persisted \cap everOpen :
        /\ pairingMap[att[o].code] # NoRecord
        /\ pairingMap[att[o].code].owner = o
        /\ Artifact(att[o].code)

\* C3 amended: no step removes a record whose status is 'open', nor its
\* artifact, however old the record is.
C3_OpenNeverEvicted ==
    [][\A c \in Codes :
          (pairingMap[c] # NoRecord /\ pairingMap[c].status = "open")
              => /\ pairingMap'[c] # NoRecord
                 /\ pairingMap'[c].owner = pairingMap[c].owner
                 /\ Artifact(c) => Artifact(c)']_vars

\* a tick has just run over an open record with its artifact, past the TTL
C3_Witness ==
    /\ lastOp = "sweep"
    /\ \E c \in Codes :
          /\ pairingMap[c] # NoRecord
          /\ pairingMap[c].status = "open"
          /\ Artifact(c)
          /\ Age(c) > SESSION_TTL

\* C4: a tick that runs to its end leaves no record that was not 'open' and
\* older than SESSION_TTL at the tick, and no directory of such a record.
C4_SweepEvictsExpired ==
    [][lastOp' = "sweep" =>
          \A c \in Codes :
              (/\ pairingMap[c] # NoRecord
               /\ pairingMap[c].status # "open"
               /\ now - pairingMap[c].createdAt > SESSION_TTL)
                  => pairingMap'[c] = NoRecord /\ ~disk'[c].exists]_vars

\* a session left without any event was swept: record and directory gone
C4_Witness ==
    /\ lastOp = "sweep"
    /\ \E a \in AttemptIds :
          /\ att[a].pc = "startup"
          /\ pairingMap[att[a].code] = NoRecord
          /\ ~disk[att[a].code].exists

\* C5 as claimed: between turns a code has a record exactly when it has a
\* directory, and a code without a record is not found by the status query
\* nor by the artifact fetch.
C5_RecordIffDirectory ==
    ~crashed =>
        \A c \in Codes :
            /\ pairingMap[c] # NoRecord <=> disk[c].exists
            /\ pairingMap[c] = NoRecord =>
                   /\ ~StatusQuery(c).ok
                   /\ DownloadQuery(c) = "invalid code or session expired"

\* C6 as claimed: no step takes a record from status 'open' to 'qr'.
C6_OpenNeverBackToQr ==
    [][\A c \in Codes :
          (/\ pairingMap[c] # NoRecord
           /\ pairingMap[c].status = "open"
           /\ pairingMap'[c] # NoRecord)
              => pairingMap'[c].status # "qr"]_vars

\* C7: a qr handler that resumes on a record whose status is 'code' stores
\* its image and leaves the status 'code' (an update that also carries a
\* connection state then sets the status of that state, never 'qr').
C7_CodeKeptOnQr ==
    [][\A a \in AttemptIds, i \in 1 .. MaxEvents :
          (/\ QrResume(a, i)
           /\ pairingMap[att[a].code] # NoRecord
           /\ pairingMap[att[a].code].status = "code")
              => /\ pairingMap'[att[a].code].qr = DataURL(handlers[a][i].qr)
                 /\ pairingMap'[att[a].code].status # "qr"
                 /\ handlers[a][i].connection = "none"
                        => pairingMap'[att[a].code].status = "code"]_vars

\* a qr handler has just resumed on a record that holds a numeric code
C7_Witness ==
    /\ lastOp = "qrResume"
    /\ \E c \in Codes :
          /\ pairingMap[c] # NoRecord
          /\ pairingMap[c].status = "code"
          /\ pairingMap[c].pairingCode # Null
          /\ pairingMap[c].qr # Null

\* C8 as claimed: a step that leaves the raw files of a directory as they
\* were leaves the consolidated document as it was.
C8_MaterializeIdempotent ==
    [][\A c \in Codes :
          (/\ Artifact(c)
           /\ Artifact(c)'
           /\ RawFiles(disk'[c]) = RawFiles(disk[c]))
              => disk'[c].files[ARTIFACT] = disk[c].files[ARTIFACT]]_vars

\* C9 as claimed: the handlers of one attempt write session_id.json at most
\* once.
C9_WrittenOnce == \A a \in AttemptIds : writes[a] <= 1

\* C10 as claimed: the directory of a record holds session_id.json exactly
\* when the record has been 'open' and its open handler has written it.
C10_ArtifactIffOpened ==
    ~crashed =>
        \A c \in Codes :
            pairingMap[c] # NoRecord =>
                (Artifact(c) <=>
                    pairingMap[c].owner \in (everOpen \cap persisted))

\* C11: the connection part of an update with connection 'open' sets the
\* status 'open'; when its handler resumes after the credential flush and completes, the status is
\* untouched and the consolidated document holds every raw file of the
\* directory under its own name with its contents (the flushed creds.json
\* included), and nothing else when no earlier document was in the directory.
C11_DocumentMapsRawFiles ==
    [][/\ \A a \in AttemptIds :
             (ConnectionUpdate(a, FALSE, "open") /\ ~crashed')
                 => pairingMap'[att[a].code].status = "open"
       /\ \A a \in AttemptIds, i \in 1 .. MaxEvents :
             (/\ QrResume(a, i)
              /\ handlers[a][i].connection = "open"
              /\ ~crashed')
                 => pairingMap'[att[a].code].status = "open"
       /\ \A a \in AttemptIds, i \in 1 .. MaxEvents, saved \in BOOLEAN :
             (OpenResume(a, i, saved, TRUE) /\ ~crashed')
                 => LET c == att[a].code
                        doc == disk'[c].files[ARTIFACT][2]
                        raw == RawFiles(disk'[c])
                    IN  /\ pairingMap' = pairingMap
                        /\ \A n \in DOMAIN raw :
                              n \in DOMAIN doc /\ doc[n] = raw[n]
                        /\ saved => doc[CREDS] = Raw(a)
                        /\ ~Artifact(c) => DOMAIN doc = DOMAIN raw]_vars

\* a first document has just been written from creds.json and app-state.json
C11_Witness ==
    /\ lastOp = "openResume"
    /\ ~crashed
    /\ \E c \in Codes :
          /\ Has(c)
          /\ pairingMap[c].status = "open"
          /\ Artifact(c)
          /\ DOMAIN disk[c].files = {CREDS, APPSTATE, ARTIFACT}
          /\ DOMAIN disk[c].files[ARTIFACT][2] = {CREDS, APPSTATE}

\* C12: when a qr update and the numeric pairing code have both been handled
\* with no open or close in between, the record has status 'code', an image
\* and a numeric code, whichever of the two finishes last: the callback on a
\* record that holds an image, or the qr handler resuming on a record that
\* holds the numeric code in status 'code'.
C12_CodeAndQrInAnyOrder ==
    [][/\ \A a \in AttemptIds :
             (/\ PairingCodeCallback(a, FALSE)
              /\ Has(att[a].code)
              /\ pairingMap[att[a].code].qr # Null)
                 => /\ pairingMap'[att[a].code].status = "code"
                    /\ pairingMap'[att[a].code].qr = pairingMap[att[a].code].qr
                    /\ pairingMap'[att[a].code].pairingCode # Null
       /\ \A a \in AttemptIds, i \in 1 .. MaxEvents :
             (/\ QrResume(a, i)
              /\ handlers[a][i].connection = "none"
              /\ Has(att[a].code)
              /\ pairingMap[att[a].code].status = "code"
              /\ pairingMap[att[a].code].pairingCode # Null)
                 => /\ pairingMap'[att[a].code].status = "code"
                    /\ pairingMap'[att[a].code].qr # Null
                    /\ pairingMap'[att[a].code].pairingCode
                           = pairingMap[att[a].code].pairingCode]_vars

\* the callback has just run on a record whose only event so far was a qr
\* update that its handler has finished storing
C12_Witness ==
    /\ lastOp = "pairingCode"
    /\ events = 1
    /\ ~crashed
    /\ \E a \in AttemptIds :
          /\ att[a].pc = "listening"
          /\ att[a].pcb
          /\ handlers[a] = <<>>
          /\ pairingMap[att[a].code].owner = a
          /\ pairingMap[att[a].code].status = "code"
          /\ pairingMap[att[a].code].qr # Null
          /\ pairingMap[att[a].code].pairingCode # Null

\* C13 as claimed: from GET /pair until the first protocol event of the new
\* session (its startup still suspended, or its socket created and silent),
\* GET /status finds status 'created' or 'connecting', no image, no numeric
\* code and sessionReady false.
C13_FreshSessionQuery ==
    \A a \in AttemptIds :
        (/\ Used(a)
         /\ pairingMap[att[a].code].owner = a
         /\ \/ att[a].pc \in {"startup", "authReady"}
            \/ att[a].pc = "listening" /\ events = 0 /\ ~att[a].pcb)
            => LET q == StatusQuery(att[a].code)
               IN  /\ q.status \in {"created", "connecting"}
                   /\ ~q.qrAvailable
                   /\ q.pairingCode = Null
                   /\ ~q.sessionReady

\* C14 as claimed: a startup that fails (a rejected await, a throwing
\* makeWASocket, the assignment of line 250 on a missing record) leaves the
\* process alive, changes no record but the attempt's own, and puts status
\* 'error' with a description on that record when it is still there.
C14_StartupFailureContained ==
    [][\A a \in AttemptIds :
          (\/ StartupReject(a)
           \/ StartupResume(a, FALSE)
           \/ StartupResume(a, TRUE) /\ ~Has(att[a].code))
              => /\ ~crashed'
                 /\ \A c \in Codes :
                       pairingMap'[c] # pairingMap[c]
                           => pairingMap[c].owner = a
                 /\ pairingMap[att[a].code].owner = a
                       => /\ pairingMap'[att[a].code].status = "error"
                          /\ pairingMap'[att[a].code].error # Null]_vars

\* C15 as claimed: when the flush, the directory read or the write of the
\* document fails in the open handler, the process stays alive and the
\* record keeps the status it had (an 'open' stays 'open').
C15_MaterializeFailureContained ==
    [][\A a \in AttemptIds, i \in 1 .. MaxEvents,
          saved \in BOOLEAN, ioOk \in BOOLEAN :
          (OpenResume(a, i, saved, ioOk) /\ (~saved \/ ~ioOk))
              => /\ ~crashed'
                 /\ pairingMap' = pairingMap]_vars

\* C16 as claimed: a sweep tick in which sock.end() or fs.rmSync throws for
\* one record leaves the process alive and still removes every record that
\* was past its lifetime, the failing one included.
C16_EvictionFailureIsolated ==
    [][\A c \in Codes :
          SweepThrow(c)
              => /\ ~crashed'
                 /\ \A d \in Stale : pairingMap'[d] = NoRecord]_vars

\* C17 as claimed: the directory of a record holds only what that record's
\* own attempt put there: a creds.json or key file in it was written by the
\* owner's socket, a consolidated document by the owner's open handler, and
\* no other attempt has written a document under the path while the record
\* is in the store.
C17_DirectoryOwnedByRecord ==
    ~crashed =>
        \A c \in Codes :
            Has(c) =>
                LET o == pairingMap[c].owner
                    files == disk[c].files
                IN  /\ disk[c].exists
                    /\ CREDS \in DOMAIN files => files[CREDS] = Raw(o)
                    /\ APPSTATE \in DOMAIN files => files[APPSTATE] = Raw(o)
                    /\ ARTIFACT \in DOMAIN files => writes[o] > 0

\* C18 as claimed: a turn of an attempt whose record has been evicted (its
\* startup resuming or failing, the numeric-code callback, a connection
\* update, a suspended qr handler resuming) neither throws on the missing
\* record nor changes any record of the store.
C18_EvictedAttemptInert ==
    [][\A a \in AttemptIds :
          (/\ Used(a)
           /\ pairingMap[att[a].code].owner # a
           /\ \/ StartupReject(a)
              \/ \E sockOk \in BOOLEAN : StartupResume(a, sockOk)
              \/ \E fatal \in BOOLEAN : PairingCodeCallback(a, fatal)
              \/ \E hasQr \in BOOLEAN, conn \in {"none", "open", "close"} :
                    ConnectionUpdate(a, hasQr, conn)
              \/ \E i \in 1 .. MaxEvents : QrResume(a, i))
              => /\ ~crashed'
                 /\ pairingMap' = pairingMap]_vars

\* C19 as claimed: a record carries an error description only while its
\* status is 'error'.
C19_ErrorOnlyInErrorStatus ==
    \A c \in Codes :
        (Has(c) /\ pairingMap[c].error # Null)
            => pairingMap[c].status = "error"

\* the record attempt a was started for is in the store
Mine(a) == Used(a) /\ pairingMap[att[a].code].owner = a

\* C20 as claimed: with the sweeper running and the clock moving, every
\* session (created early enough for the clock to pass its lifetime) at some
\* later point has status 'open' or is out of the store with its directory
\* deleted.
C20_BoundedLifetime ==
    \A a \in AttemptIds :
        (/\ Mine(a)
         /\ pairingMap[att[a].code].createdAt + SESSION_TTL
                < MaxTicks * ClockStep)
            ~> (/\ Used(a)
                /\ \/ Mine(a) /\ pairingMap[att[a].code].status = "open"
                   \/ ~Mine(a) /\ ~disk[att[a].code].exists)


====
